---- MODULE Spec2Model ----
(***************************************************************************)
(* The Poryscript recursive-descent parser (parser/parser.go) as a state   *)
(* machine.  The Go call stack is the variable stack: one frame per active *)
(* parse function, holding that function's locals and its position.  Every *)
(* action is one parse function; it runs from the frame's position to the  *)
(* next call, loop iteration or return.                                    *)
(*                                                                         *)
(* Go strings that the parser builds with strings.Join or fmt.Sprintf are  *)
(* sequences of pieces: Join puts the separator between the parts, Sprintf *)
(* puts the arguments between the pieces of the format.                    *)
(***************************************************************************)
EXTENDS Integers, Sequences, FiniteSets, TLC

VARIABLES
    toks,     \* the lexer's input: the token stream, ending with one EOF token
    p,        \* the Parser struct
    stack,    \* the call stack below ParseProgram, innermost frame last
    ret,      \* the value the last returning function returned
    result    \* what ParseProgram returned, once it has

vars == <<toks, p, stack, ret, result>>

(***************************************************************************)
(* Tokens.                                                                 *)
(***************************************************************************)

\* The token kinds of the lexer's contract.
TokenTypes ==
    { "EOF", "IDENT", "STRING", "RAWSTRING",
      "SCRIPT", "RAW", "RAWGLOBAL",
      "LBRACE", "RBRACE", "LPAREN", "RPAREN", "COMMA",
      "IF", "ELSEIF", "ELSE", "VAR", "FLAG",
      "GT", "GTE", "LT", "LTE", "EQ", "NEQ", "TRUE", "FALSE",
      "AND", "OR", "WHILE", "DO", "SWITCH", "BREAK", "CONTINUE" }

\* The literal text of a token of each kind (one representative for the
\* kinds whose text varies).
LiteralOf(t) ==
    CASE t = "EOF" -> ""
      [] t = "IDENT" -> "x"
      [] t = "STRING" -> "sx"
      [] t = "RAWSTRING" -> "rx"
      [] t = "SCRIPT" -> "script"
      [] t = "RAW" -> "raw"
      [] t = "RAWGLOBAL" -> "rawglobal"
      [] t = "LBRACE" -> "{"
      [] t = "RBRACE" -> "}"
      [] t = "LPAREN" -> "("
      [] t = "RPAREN" -> ")"
      [] t = "COMMA" -> ","
      [] t = "IF" -> "if"
      [] t = "ELSEIF" -> "elif"
      [] t = "ELSE" -> "else"
      [] t = "VAR" -> "var"
      [] t = "FLAG" -> "flag"
      [] t = "GT" -> ">"
      [] t = "GTE" -> ">="
      [] t = "LT" -> "<"
      [] t = "LTE" -> "<="
      [] t = "EQ" -> "=="
      [] t = "NEQ" -> "!="
      [] t = "TRUE" -> "TRUE"
      [] t = "FALSE" -> "FALSE"
      [] t = "AND" -> "&&"
      [] t = "OR" -> "||"
      [] t = "WHILE" -> "while"
      [] t = "DO" -> "do"
      [] t = "SWITCH" -> "switch"
      [] t = "BREAK" -> "break"
      [] t = "CONTINUE" -> "continue"

\* token.Token.  Offset is the token's place in the stream; the parser never
\* reads it, the properties use it to speak of source order.
Token(t, lit, line) ==
    [Type |-> t, Literal |-> lit, LineNumber |-> line, Offset |-> 0]

\* The zero value of token.Token.
ZeroToken == Token("", "", 0)

K(t, line) == Token(t, LiteralOf(t), line)

(***************************************************************************)
(* The inputs: well-formed programs of the language the spec describes,    *)
(* and every stream one edit away from one of them (a token replaced by a  *)
(* token of any kind, a token dropped or added, the stream cut by EOF).     *)
(***************************************************************************)

\* 1 script S {
\* 2   cmd(a, f(b, c))
\* 3   msg("s1", "s2")
\* 4 }
\* 5 raw R `r1`
CommandProgram ==
    << K("SCRIPT", 1), Token("IDENT", "S", 1), K("LBRACE", 1),
       Token("IDENT", "cmd", 2), K("LPAREN", 2), Token("IDENT", "a", 2),
       K("COMMA", 2), Token("IDENT", "f", 2), K("LPAREN", 2),
       Token("IDENT", "b", 2), K("COMMA", 2), Token("IDENT", "c", 2),
       K("RPAREN", 2), K("RPAREN", 2),
       Token("IDENT", "msg", 3), K("LPAREN", 3), Token("STRING", "s1", 3),
       K("COMMA", 3), Token("STRING", "s2", 3), K("RPAREN", 3),
       K("RBRACE", 4),
       K("RAW", 5), Token("IDENT", "R", 5), Token("RAWSTRING", "r1", 5),
       K("EOF", 6) >>

\* 1 script S {
\* 2   if (flag(A) == TRUE) {
\* 3     lock
\* 4   } elif (var(B) >= n1) {
\* 5     msg("s1")
\* 6   } else {
\* 7     end("s2")
\* 8   }
\* 9 }
IfProgram ==
    << K("SCRIPT", 1), Token("IDENT", "S", 1), K("LBRACE", 1),
       K("IF", 2), K("LPAREN", 2), K("FLAG", 2), K("LPAREN", 2),
       Token("IDENT", "A", 2), K("RPAREN", 2), K("EQ", 2), K("TRUE", 2),
       K("RPAREN", 2), K("LBRACE", 2),
       Token("IDENT", "lock", 3),
       K("RBRACE", 4), K("ELSEIF", 4), K("LPAREN", 4), K("VAR", 4),
       K("LPAREN", 4), Token("IDENT", "B", 4), K("RPAREN", 4), K("GTE", 4),
       Token("IDENT", "n1", 4), K("RPAREN", 4), K("LBRACE", 4),
       Token("IDENT", "msg", 5), K("LPAREN", 5), Token("STRING", "s1", 5),
       K("RPAREN", 5),
       K("RBRACE", 6), K("ELSE", 6), K("LBRACE", 6),
       Token("IDENT", "end", 7), K("LPAREN", 7), Token("STRING", "s2", 7),
       K("RPAREN", 7),
       K("RBRACE", 8),
       K("RBRACE", 9),
       K("EOF", 10) >>

\* 1 script S {
\* 2   if (flag(A) == TRUE && var(B) == n1) {
\* 3   }
\* 4 }
BinaryProgram ==
    << K("SCRIPT", 1), Token("IDENT", "S", 1), K("LBRACE", 1),
       K("IF", 2), K("LPAREN", 2), K("FLAG", 2), K("LPAREN", 2),
       Token("IDENT", "A", 2), K("RPAREN", 2), K("EQ", 2), K("TRUE", 2),
       K("AND", 2), K("VAR", 2), K("LPAREN", 2), Token("IDENT", "B", 2),
       K("RPAREN", 2), K("EQ", 2), Token("IDENT", "n1", 2), K("RPAREN", 2),
       K("LBRACE", 2),
       K("RBRACE", 3),
       K("RBRACE", 4),
       K("EOF", 5) >>

\* 1 rawglobal G `r1`
\* 2 script S {
\* 3   while (var(V) == n1) {
\* 4     if (flag(A) == FALSE) {
\* 5       break
\* 6     }
\* 7   }
\* 8 }
WhileProgram ==
    << K("RAWGLOBAL", 1), Token("IDENT", "G", 1), Token("RAWSTRING", "r1", 1),
       K("SCRIPT", 2), Token("IDENT", "S", 2), K("LBRACE", 2),
       K("WHILE", 3), K("LPAREN", 3), K("VAR", 3), K("LPAREN", 3),
       Token("IDENT", "V", 3), K("RPAREN", 3), K("EQ", 3),
       Token("IDENT", "n1", 3), K("RPAREN", 3), K("LBRACE", 3),
       K("IF", 4), K("LPAREN", 4), K("FLAG", 4), K("LPAREN", 4),
       Token("IDENT", "A", 4), K("RPAREN", 4), K("EQ", 4), K("FALSE", 4),
       K("RPAREN", 4), K("LBRACE", 4),
       K("BREAK", 5),
       K("RBRACE", 6),
       K("RBRACE", 7),
       K("RBRACE", 8),
       K("EOF", 9) >>

Programs == { CommandProgram, IfProgram, BinaryProgram, WhileProgram }

\* s with the token at i replaced by a token of kind t on the same line.
Replace(s, i, t) == [s EXCEPT ![i] = K(t, s[i].LineNumber)]

\* s without the token at i.
Drop(s, i) == SubSeq(s, 1, i - 1) \o SubSeq(s, i + 1, Len(s))

\* s with a token of kind t put before the token at i, on its line.
Insert(s, i, t) ==
    SubSeq(s, 1, i - 1) \o << K(t, s[i].LineNumber) >> \o SubSeq(s, i, Len(s))

FirstEOF(s) == CHOOSE i \in 1..Len(s) :
    s[i].Type = "EOF" /\ \A j \in 1..(i - 1) : s[j].Type # "EOF"

\* The stream the lexer hands out: s up to its first EOF, each token at its
\* offset.
Stream(s) ==
    [i \in 1..FirstEOF(s) |-> [s[i] EXCEPT !.Offset = i]]

Inputs ==
    UNION { { Stream(s) }
            \cup { Stream(Replace(s, i, t)) :
                       i \in 1..(Len(s) - 1), t \in TokenTypes }
            \cup { Stream(Drop(s, i)) : i \in 1..(Len(s) - 1) }
            \cup { Stream(Insert(s, i, t)) :
                       i \in 1..Len(s), t \in TokenTypes }
          : s \in Programs }

(***************************************************************************)
(* The lexer and the parser's token helpers.                               *)
(***************************************************************************)

\* lexer.NextToken after l tokens were handed out: the next token of the
\* stream, and EOF again once EOF was reached.
NextToken(l) ==
    IF l < Len(toks)
    THEN [tok |-> toks[l + 1], l |-> l + 1]
    ELSE [tok |-> toks[Len(toks)], l |-> l]

nextToken(q) ==
    LET n == NextToken(q.l)
    IN  [q EXCEPT !.curToken = q.peekToken, !.peekToken = n.tok, !.l = n.l]

peekTokenIs(q, expectedType) == q.peekToken.Type = expectedType

peekError(q, expectedType) ==
    [q EXCEPT !.errors = Append(@,
        << "expected next token to be type ", expectedType, ", got ",
           q.peekToken.Type, " instead" >>)]

expectPeek(q, expectedType) ==
    IF peekTokenIs(q, expectedType)
    THEN [p |-> nextToken(q), ok |-> TRUE]
    ELSE [p |-> peekError(q, expectedType), ok |-> FALSE]

\* fmt.Sprintf("line %d: ...", line, ...): the pieces of the message.
LineError(line, pieces) == << "line ", ToString(line), ": " >> \o pieces

addError(q, msg) == [q EXCEPT !.errors = Append(@, msg)]

\* getImplicitTextLabel as it would be if the numbering started at 1.
getImplicitTextLabel_FromOne(i) == "Text_" \o ToString(i + 1)

getImplicitTextLabel(i) == "Text_" \o ToString(i)

\* strings.Join(parts, " ")
RECURSIVE Join(_)
Join(parts) ==
    IF Len(parts) = 0 THEN << >>
    ELSE IF Len(parts) = 1 THEN << parts[1] >>
    ELSE << parts[1], " " >> \o Join(Tail(parts))

\* parser.New: both curToken and peekToken are read.
New ==
    nextToken(nextToken(
        [l |-> 0, curToken |-> ZeroToken, peekToken |-> ZeroToken,
         errors |-> << >>, implicitTexts |-> << >>]))

(***************************************************************************)
(* The call stack.                                                         *)
(***************************************************************************)

Nil == [kind |-> "nil"]

Top == stack[Len(stack)]

Frame(fn) == [fn |-> fn, pc |-> "entry"]

Running(fn) == stack # << >> /\ Top.fn = fn

\* The running function moves on in its own body.
Goto(f) == stack' = [stack EXCEPT ![Len(stack)] = f] /\ ret' = ret

\* The running function calls callee and waits for it at f.pc.
Call(f, callee) ==
    stack' = Append([stack EXCEPT ![Len(stack)] = f], callee) /\ ret' = ret

\* The running function returns v to its caller.
Return(v) == stack' = SubSeq(stack, 1, Len(stack) - 1) /\ ret' = v

Init ==
    /\ toks \in Inputs
    /\ p = New
    /\ stack = << Frame("ParseProgram") >>
    /\ ret = Nil
    /\ result = [kind |-> "running"]

Done == result.kind # "running"

(***************************************************************************)
(* ParseProgram and the top level.                                         *)
(***************************************************************************)

\* hasErrors as it would be if ParseProgram gave up on a nil statement
\* instead of on a recorded error.
hasErrors_NilStatement(q) == ret.kind = "nil"

\* ParseProgram's test after each top-level statement: the parse is given up
\* when an error was recorded.
hasErrors(q) == Len(q.errors) > 0

\* program.Texts as ParseProgram builds it from the implicit texts.
programTexts(texts) ==
    [i \in 1..Len(texts) |->
        [Name |-> getImplicitTextLabel(i - 1), Value |-> texts[i]]]

ParseProgram ==
    /\ Running("ParseProgram")
    /\ LET f == Top IN
       CASE f.pc = "entry" ->
              /\ p' = [p EXCEPT !.implicitTexts = << >>]
              /\ Goto([fn |-> "ParseProgram", pc |-> "loop",
                       program |-> [kind |-> "program",
                                    TopLevelStatements |-> << >>,
                                    Texts |-> << >>]])
              /\ result' = result
         [] f.pc = "loop" ->
              IF p.curToken.Type # "EOF"
              THEN /\ Call([f EXCEPT !.pc = "statement"],
                           Frame("parseTopLevelStatement"))
                   /\ UNCHANGED <<p, result>>
              ELSE /\ result' = [f.program EXCEPT
                                   !.Texts = programTexts(p.implicitTexts)]
                   /\ stack' = << >>
                   /\ UNCHANGED <<p, ret>>
         [] f.pc = "statement" ->
              IF hasErrors(p)
              THEN /\ result' = Nil
                   /\ stack' = << >>
                   /\ UNCHANGED <<p, ret>>
              ELSE /\ p' = nextToken(p)
                   /\ Goto([f EXCEPT
                            !.pc = "loop",
                            !.program.TopLevelStatements =
                                IF ret.kind # "nil" THEN Append(@, ret) ELSE @])
                   /\ result' = result
    /\ toks' = toks

\* The token kinds parseTopLevelStatement has a case for.
isScript(t) == t = "SCRIPT"

\* isRaw as it would be if the case listed token.RAW alone.
isRaw_RawOnly(t) == t = "RAW"

isRaw(t) == t \in { "RAW", "RAWGLOBAL" }

parseTopLevelStatement ==
    /\ Running("parseTopLevelStatement")
    /\ LET f == Top IN
       CASE f.pc = "entry" ->
              IF isScript(p.curToken.Type)
              THEN /\ Call([f EXCEPT !.pc = "statement"],
                           Frame("parseScriptStatement"))
                   /\ p' = p
              ELSE IF isRaw(p.curToken.Type)
              THEN /\ Call([f EXCEPT !.pc = "statement"],
                           Frame("parseRawStatement"))
                   /\ p' = p
              ELSE /\ p' = addError(p, LineError(p.curToken.LineNumber,
                        << "could not parse top-level statement for '",
                           p.curToken.Literal, "'" >>))
                   /\ Return(Nil)
         [] f.pc = "statement" ->
              /\ Return(ret)
              /\ p' = p
    /\ UNCHANGED <<toks, result>>

parseScriptStatement ==
    /\ Running("parseScriptStatement")
    /\ LET f == Top IN
       CASE f.pc = "entry" ->
              LET statement == [kind |-> "script", Token |-> p.curToken,
                                Name |-> Nil, Body |-> Nil]
                  e1 == expectPeek(p, "IDENT")
                  named == [statement EXCEPT !.Name =
                               [Token |-> e1.p.curToken,
                                Value |-> e1.p.curToken.Literal]]
                  e2 == expectPeek(e1.p, "LBRACE")
              IN  IF ~e1.ok THEN p' = e1.p /\ Return(Nil)
                  ELSE IF ~e2.ok THEN p' = e2.p /\ Return(Nil)
                  ELSE /\ p' = nextToken(e2.p)
                       /\ Call([fn |-> "parseScriptStatement", pc |-> "body",
                                statement |-> named],
                               Frame("parseBlockStatement"))
         [] f.pc = "body" ->
              /\ Return([f.statement EXCEPT !.Body = ret])
              /\ p' = p
    /\ UNCHANGED <<toks, result>>

parseRawStatement ==
    /\ Running("parseRawStatement")
    /\ LET statement == [kind |-> "raw", Token |-> p.curToken,
                         IsGlobal |-> p.curToken.Type = "RAWGLOBAL",
                         Name |-> Nil, Value |-> ""]
           e1 == expectPeek(p, "IDENT")
           named == [statement EXCEPT !.Name =
                        [Token |-> e1.p.curToken,
                         Value |-> e1.p.curToken.Literal]]
           e2 == expectPeek(e1.p, "RAWSTRING")
       IN  IF ~e1.ok THEN p' = e1.p /\ Return(Nil)
           ELSE IF ~e2.ok THEN p' = e2.p /\ Return(Nil)
           ELSE /\ p' = e2.p
                /\ Return([named EXCEPT !.Value = e2.p.curToken.Literal])
    /\ UNCHANGED <<toks, result>>

(***************************************************************************)
(* Blocks and statements.                                                  *)
(***************************************************************************)

parseBlockStatement ==
    /\ Running("parseBlockStatement")
    /\ LET f == Top IN
       CASE f.pc = "entry" ->
              /\ Goto([fn |-> "parseBlockStatement", pc |-> "loop",
                       block |-> [kind |-> "block", Token |-> p.curToken,
                                  Statements |-> << >>]])
              /\ p' = p
         [] f.pc = "loop" ->
              IF p.curToken.Type = "RBRACE"
              THEN Return(f.block) /\ p' = p
              ELSE IF p.curToken.Type = "EOF"
              THEN /\ p' = addError(p, LineError(f.block.Token.LineNumber,
                        << "missing closing curly brace for block statement" >>))
                   /\ Return(Nil)
              ELSE /\ Call([f EXCEPT !.pc = "statement"],
                           Frame("parseStatement"))
                   /\ p' = p
         [] f.pc = "statement" ->
              IF ret.kind = "nil"
              THEN Return(Nil) /\ p' = p
              ELSE /\ p' = nextToken(p)
                   /\ Goto([f EXCEPT !.pc = "loop",
                                     !.block.Statements = Append(@, ret)])
    /\ UNCHANGED <<toks, result>>

parseStatement ==
    /\ Running("parseStatement")
    /\ LET f == Top IN
       CASE f.pc = "entry" ->
              IF p.curToken.Type = "IDENT"
              THEN /\ Call([f EXCEPT !.pc = "statement"],
                           Frame("parseCommandStatement"))
                   /\ p' = p
              ELSE IF p.curToken.Type = "IF"
              THEN /\ Call([f EXCEPT !.pc = "statement"],
                           Frame("parseIfStatement"))
                   /\ p' = p
              ELSE /\ p' = addError(p, LineError(p.curToken.LineNumber,
                        << "could not parse statement for '",
                           p.curToken.Literal, "'\n" >>))
                   /\ Return(Nil)
         [] f.pc = "statement" ->
              /\ Return(ret)
              /\ p' = p
    /\ UNCHANGED <<toks, result>>

(***************************************************************************)
(* Commands.                                                               *)
(***************************************************************************)

parseCommandStatement ==
    /\ Running("parseCommandStatement")
    /\ LET f == Top IN
       CASE f.pc = "entry" ->
              LET command == [kind |-> "command", Token |-> p.curToken,
                              Name |-> [Token |-> p.curToken,
                                        Value |-> p.curToken.Literal],
                              Args |-> << >>]
              IN  IF peekTokenIs(p, "LPAREN")
                  THEN /\ p' = nextToken(nextToken(p))
                       /\ Goto([fn |-> "parseCommandStatement", pc |-> "args",
                                command |-> command, argParts |-> << >>,
                                numOpenParens |-> 0])
                  ELSE /\ p' = p
                       /\ Return(command)
         [] f.pc = "args" ->
              IF p.curToken.Type = "RPAREN" /\ f.numOpenParens = 0
              THEN /\ p' = p
                   /\ Return(IF Len(f.argParts) > 0
                             THEN [f.command EXCEPT
                                     !.Args = Append(@, Join(f.argParts))]
                             ELSE f.command)
              ELSE IF p.curToken.Type = "EOF"
              THEN /\ p' = addError(p, LineError(f.command.Token.LineNumber,
                        << "missing closing parenthesis for command '",
                           f.command.Name.Token.Literal, "'" >>))
                   /\ Return(Nil)
              ELSE IF p.curToken.Type = "COMMA"
              THEN /\ p' = nextToken(p)
                   /\ Goto([f EXCEPT
                            !.command.Args = Append(@, Join(f.argParts)),
                            !.argParts = << >>])
              ELSE IF p.curToken.Type = "LPAREN"
              THEN /\ p' = nextToken(p)
                   /\ Goto([f EXCEPT
                            !.numOpenParens = @ + 1,
                            !.argParts = Append(@, p.curToken.Literal)])
              ELSE IF p.curToken.Type = "RPAREN"
              THEN /\ p' = nextToken(p)
                   /\ Goto([f EXCEPT
                            !.numOpenParens = @ - 1,
                            !.argParts = Append(@, p.curToken.Literal)])
              ELSE IF p.curToken.Type = "STRING"
              THEN /\ p' = nextToken([p EXCEPT !.implicitTexts =
                                         Append(@, p.curToken.Literal)])
                   /\ Goto([f EXCEPT !.argParts = Append(@,
                              getImplicitTextLabel(Len(p.implicitTexts)))])
              ELSE /\ p' = nextToken(p)
                   /\ Goto([f EXCEPT
                            !.argParts = Append(@, p.curToken.Literal)])
    /\ UNCHANGED <<toks, result>>

(***************************************************************************)
(* If statements.                                                          *)
(***************************************************************************)

\* How many of the parts it collects at EOF a loop is followed with: at EOF
\* the lexer hands out EOF again, so a loop that leaves only on ")" turns
\* forever and its list of parts grows without end.
MaxParts == 3

\* parts = append(parts, p.curToken.Literal) in the collecting loops of a
\* condition.  Past MaxParts parts at EOF the list is no longer kept in
\* full: it goes between MaxParts and MaxParts + 1 entries while the loop
\* turns.
Collect(parts) ==
    IF p.curToken.Type = "EOF" /\ Len(parts) > MaxParts
    THEN SubSeq(parts, 1, MaxParts)
    ELSE Append(parts, p.curToken.Literal)

parseIfStatement ==
    /\ Running("parseIfStatement")
    /\ LET f == Top
           \* the elif loop and the trailing else, from the statement so far
           Rest(statement) ==
               IF p.peekToken.Type = "ELSEIF"
               THEN LET q == nextToken(p)
                        e == expectPeek(q, "LPAREN")
                    IN  IF ~e.ok
                        THEN /\ p' = addError(e.p,
                                    LineError(e.p.curToken.LineNumber,
                                    << "missing opening parenthesis of elif statement '",
                                       e.p.peekToken.Literal, "'" >>))
                             /\ Return(Nil)
                        ELSE /\ p' = e.p
                             /\ Call([fn |-> "parseIfStatement", pc |-> "elif",
                                      statement |-> statement],
                                     [fn |-> "parseIfConditionExpression",
                                      pc |-> "entry",
                                      lineNumber |-> e.p.peekToken.LineNumber])
               ELSE IF p.peekToken.Type = "ELSE"
               THEN LET q == nextToken(p)
                        e == expectPeek(q, "LBRACE")
                    IN  IF ~e.ok
                        THEN /\ p' = addError(e.p,
                                    LineError(e.p.peekToken.LineNumber,
                                    << "missing opening curly brace of else statement '",
                                       e.p.peekToken.Literal, "'" >>))
                             /\ Return(Nil)
                        ELSE /\ p' = nextToken(e.p)
                             /\ Call([fn |-> "parseIfStatement", pc |-> "else",
                                      statement |-> statement],
                                     Frame("parseBlockStatement"))
               ELSE /\ p' = p
                    /\ Return(statement)
       IN
       CASE f.pc = "entry" ->
              LET statement == [kind |-> "if", Token |-> p.curToken,
                                Consequence |-> Nil,
                                ElifConsequences |-> << >>,
                                ElseConsequence |-> Nil]
                  e == expectPeek(p, "LPAREN")
              IN  IF ~e.ok
                  THEN /\ p' = addError(e.p,
                              LineError(statement.Token.LineNumber,
                              << "missing opening parenthesis of if statement '",
                                 e.p.peekToken.Literal, "'" >>))
                       /\ Return(Nil)
                  ELSE /\ p' = e.p
                       /\ Call([fn |-> "parseIfStatement", pc |-> "consequence",
                                statement |-> statement],
                               [fn |-> "parseIfConditionExpression",
                                pc |-> "entry",
                                lineNumber |-> statement.Token.LineNumber])
         [] f.pc = "consequence" ->
              IF ret.kind = "nil"
              THEN Return(Nil) /\ p' = p
              ELSE Rest([f.statement EXCEPT !.Consequence = ret])
         [] f.pc = "elif" ->
              IF ret.kind = "nil"
              THEN Return(Nil) /\ p' = p
              ELSE Rest([f.statement EXCEPT
                           !.ElifConsequences = Append(@, ret)])
         [] f.pc = "else" ->
              /\ Return([f.statement EXCEPT !.ElseConsequence = ret])
              /\ p' = p
    /\ UNCHANGED <<toks, result>>

parseIfConditionExpression ==
    /\ Running("parseIfConditionExpression")
    /\ LET f == Top IN
       CASE f.pc = "entry" ->
              LET q == nextToken(p)
                  expression == [kind |-> "condition",
                                 Type |-> q.curToken.Type,
                                 Operand |-> << >>, Operator |-> "",
                                 ComparisonValue |-> << >>, Body |-> Nil]
                  e == expectPeek(q, "LPAREN")
              IN  IF ~peekTokenIs(p, "VAR") /\ ~peekTokenIs(p, "FLAG")
                  THEN /\ p' = addError(p, LineError(f.lineNumber,
                              << "invalid if statement command '",
                                 p.peekToken.Literal, "'" >>))
                       /\ Return(Nil)
                  ELSE IF ~e.ok
                  THEN /\ p' = addError(e.p, LineError(f.lineNumber,
                              << "missing opening parenthesis for if statement operator '",
                                 expression.Type, "'" >>))
                       /\ Return(Nil)
                  ELSE IF e.p.peekToken.Type = "RPAREN"
                  THEN /\ p' = addError(e.p, LineError(f.lineNumber,
                              << "missing value for if statement operator '",
                                 expression.Type, "'" >>))
                       /\ Return(Nil)
                  ELSE /\ p' = nextToken(e.p)
                       /\ Goto([fn |-> "parseIfConditionExpression",
                                pc |-> "operand",
                                lineNumber |-> f.lineNumber,
                                expression |-> expression,
                                parts |-> << >>])
         [] f.pc = "operand" ->
              IF p.curToken.Type # "RPAREN"
              THEN /\ p' = nextToken(p)
                   /\ Goto([f EXCEPT !.parts = Collect(@)])
              ELSE /\ p' = nextToken(p)
                   /\ Call([f EXCEPT !.pc = "operator",
                                     !.expression.Operand = Join(f.parts)],
                           [fn |-> IF f.expression.Type = "VAR"
                                   THEN "parseIfVarOperator"
                                   ELSE "parseIfFlagOperator",
                            pc |-> "entry",
                            expression |->
                                [f.expression EXCEPT !.Operand = Join(f.parts)]])
         [] f.pc = "operator" ->
              IF ~ret.ok
              THEN Return(Nil) /\ p' = p
              ELSE /\ p' = p
                   /\ Call([f EXCEPT !.pc = "body",
                                     !.expression = ret.expression],
                           Frame("parseBlockStatement"))
         [] f.pc = "body" ->
              /\ Return([f.expression EXCEPT !.Body = ret])
              /\ p' = p
    /\ UNCHANGED <<toks, result>>

\* isVarOperator as it would be if the six tests were joined by || in place
\* of &&: no token is turned away.
isVarOperator_Any(t) == TRUE

\* The operators a var condition takes.
isVarOperator(t) == t \in { "GT", "GTE", "LT", "LTE", "EQ", "NEQ" }

\* What parseIfVarOperator and parseIfFlagOperator hand back: ok, and the
\* expression they filled in through the pointer.
Filled(ok, expression) ==
    [kind |-> "operator", ok |-> ok, expression |-> expression]

parseIfVarOperator ==
    /\ Running("parseIfVarOperator")
    /\ LET f == Top IN
       CASE f.pc = "entry" ->
              LET q == nextToken(p) IN
              IF ~isVarOperator(p.curToken.Type)
              THEN /\ p' = addError(p, LineError(p.curToken.LineNumber,
                          << "invalid condition operator '",
                             p.curToken.Literal, "'" >>))
                   /\ Return(Filled(FALSE, f.expression))
              ELSE IF q.curToken.Type = "RPAREN"
              THEN /\ p' = addError(q, LineError(q.curToken.LineNumber,
                          << "missing comparison value for if statement" >>))
                   /\ Return(Filled(FALSE,
                         [f.expression EXCEPT !.Operator = p.curToken.Type]))
              ELSE /\ p' = q
                   /\ Goto([fn |-> "parseIfVarOperator", pc |-> "value",
                            expression |-> [f.expression EXCEPT
                                              !.Operator = p.curToken.Type],
                            parts |-> << >>])
         [] f.pc = "value" ->
              IF p.curToken.Type # "RPAREN"
              THEN /\ p' = nextToken(p)
                   /\ Goto([f EXCEPT !.parts = Collect(@)])
              ELSE LET e == expectPeek(p, "LBRACE") IN
                   IF ~e.ok
                   THEN /\ p' = e.p
                        /\ Return(Filled(FALSE, f.expression))
                   ELSE /\ p' = nextToken(e.p)
                        /\ Return(Filled(TRUE, [f.expression EXCEPT
                              !.ComparisonValue = Join(f.parts)]))
    /\ UNCHANGED <<toks, result>>

\* The operator and the values a flag condition takes.
isFlagOperator(t) == t = "EQ"
isFlagValue(t) == t \in { "TRUE", "FALSE" }

parseIfFlagOperator ==
    /\ Running("parseIfFlagOperator")
    /\ LET f == Top
           q == nextToken(p)
           expression == [f.expression EXCEPT !.Operator = p.curToken.Type]
           valued == [expression EXCEPT
                        !.ComparisonValue = << q.curToken.Type >>]
           e1 == expectPeek(q, "RPAREN")
           e2 == expectPeek(e1.p, "LBRACE")
       IN  IF ~isFlagOperator(p.curToken.Type)
           THEN /\ p' = addError(p, LineError(p.curToken.LineNumber,
                       << "invalid condition operator '", p.curToken.Literal,
                          "'. Only '==' is allowed." >>))
                /\ Return(Filled(FALSE, f.expression))
           ELSE IF q.curToken.Type = "RPAREN"
           THEN /\ p' = addError(q, LineError(q.curToken.LineNumber,
                       << "missing comparison value for if statement" >>))
                /\ Return(Filled(FALSE, expression))
           ELSE IF ~isFlagValue(q.curToken.Type)
           THEN /\ p' = addError(q, LineError(q.curToken.LineNumber,
                       << "invalid flag comparison value '",
                          q.curToken.Literal,
                          "'. Only 'TRUE' and 'FALSE' are allowed." >>))
                /\ Return(Filled(FALSE, expression))
           ELSE IF ~e1.ok THEN p' = e1.p /\ Return(Filled(FALSE, valued))
           ELSE IF ~e2.ok THEN p' = e2.p /\ Return(Filled(FALSE, valued))
           ELSE /\ p' = nextToken(e2.p)
                /\ Return(Filled(TRUE, valued))
    /\ UNCHANGED <<toks, result>>

(***************************************************************************)
(* The specification.                                                      *)
(***************************************************************************)

Next ==
    \/ ParseProgram
    \/ parseTopLevelStatement
    \/ parseScriptStatement
    \/ parseRawStatement
    \/ parseBlockStatement
    \/ parseStatement
    \/ parseCommandStatement
    \/ parseIfStatement
    \/ parseIfConditionExpression
    \/ parseIfVarOperator
    \/ parseIfFlagOperator

Spec == Init /\ [][Next]_vars

\* The parser is one sequential Go call: while it has not returned it keeps
\* executing.
FairSpec == Spec /\ WF_vars(Next)

(***************************************************************************)
(* Properties.                                                             *)
(***************************************************************************)

\* C1: ParseProgram terminates on every EOF-terminated token stream, with a
\* program or with nil and a non-empty error list; also when the stream
\* ends inside an if/elif condition.
C1_Terminates ==
    <>(\/ result.kind = "program"
       \/ result.kind = "nil" /\ Len(p.errors) > 0)

\* C2: when ParseProgram has returned, it returned a program exactly when
\* the error list is empty.
C2_ProgramIffNoErrors ==
    Done => (result.kind = "program" <=> Len(p.errors) = 0)

\* A script whose body failed is a non-nil statement; no program is handed
\* out for it.
C2_Witness ==
    /\ Done
    /\ result.kind = "nil"
    /\ Len(p.errors) > 0
    /\ ret.kind = "script"
    /\ ret.Body.kind = "nil"

\* The pieces "(" and ")" of arg never close more than was opened, and
\* close all of it: depth is the number of parentheses open before piece i.
RECURSIVE Balanced(_, _, _)
Balanced(arg, i, depth) ==
    IF i > Len(arg) THEN depth = 0
    ELSE IF arg[i] = "(" THEN Balanced(arg, i + 1, depth + 1)
    ELSE IF arg[i] = ")" THEN depth > 0 /\ Balanced(arg, i + 1, depth - 1)
    ELSE Balanced(arg, i + 1, depth)

\* C3: every argument of a command that parseCommandStatement returns is
\* parenthesis-balanced: a comma inside nested parentheses splits nothing.
C3_ArgsBalanced ==
    ret.kind = "command" =>
        \A i \in 1..Len(ret.Args) : Balanced(ret.Args[i], 1, 0)

\* The nodes of one kind under an AST node, in source order.
RECURSIVE NodesOf(_, _), NodesOfAll(_, _)
NodesOf(n, kind) ==
    (IF n.kind = kind THEN << n >> ELSE << >>) \o
    (CASE n.kind = "program" -> NodesOfAll(n.TopLevelStatements, kind)
       [] n.kind = "script" -> NodesOf(n.Body, kind)
       [] n.kind = "block" -> NodesOfAll(n.Statements, kind)
       [] n.kind = "if" -> NodesOf(n.Consequence, kind)
                           \o NodesOfAll(n.ElifConsequences, kind)
                           \o NodesOf(n.ElseConsequence, kind)
       [] n.kind = "condition" -> NodesOf(n.Body, kind)
       [] OTHER -> << >>)
NodesOfAll(s, kind) ==
    IF Len(s) = 0 THEN << >>
    ELSE NodesOf(Head(s), kind) \o NodesOfAll(Tail(s), kind)

\* All the sequences of ss, one after the other.
RECURSIVE Concat(_)
Concat(ss) == IF Len(ss) = 0 THEN << >> ELSE Head(ss) \o Concat(Tail(ss))

\* The pieces of all arguments of all commands of the program, in order.
ArgPieces(program) ==
    LET commands == NodesOf(program, "command")
    IN  Concat([i \in 1..Len(commands) |-> Concat(commands[i].Args)])

IsString(t) == t.Type = "STRING"

\* The string literals of the source, in source order.
SourceStrings == SelectSeq(toks, IsString)

StringLiterals == { toks[i].Literal : i \in { j \in 1..Len(toks) : IsString(toks[j]) } }

Labels == { "Text_" \o ToString(i) : i \in 0..Len(toks) }

IsLabel(piece) == piece \in Labels

\* No condition of the program holds a string literal: every string literal
\* of the source is in a command's argument list.
StringsOnlyInArgs(program) ==
    LET conditions == NodesOf(program, "condition")
    IN  \A i \in 1..Len(conditions) :
            /\ \A j \in 1..Len(conditions[i].Operand) :
                   conditions[i].Operand[j] \notin StringLiterals
            /\ \A j \in 1..Len(conditions[i].ComparisonValue) :
                   conditions[i].ComparisonValue[j] \notin StringLiterals

\* C4: after a successful parse whose string literals s_0..s_(k-1) are all in
\* command argument lists, Texts is Text_0 -> s_0, ..., Text_(k-1) -> s_(k-1),
\* and the arguments hold those labels, in that order, in place of the
\* literal text.
C4_ImplicitTexts ==
    (Done /\ result.kind = "program" /\ StringsOnlyInArgs(result)) =>
        LET S == SourceStrings
            pieces == ArgPieces(result)
        IN  /\ Len(result.Texts) = Len(S)
            /\ \A i \in 1..Len(S) :
                   /\ result.Texts[i].Name = "Text_" \o ToString(i - 1)
                   /\ result.Texts[i].Value = S[i].Literal
            /\ SelectSeq(pieces, IsLabel)
                   = [i \in 1..Len(S) |-> "Text_" \o ToString(i - 1)]
            /\ \A i \in 1..Len(pieces) : pieces[i] \notin StringLiterals

\* A program with two string literals in one command.
C4_Witness ==
    /\ Done
    /\ result.kind = "program"
    /\ StringsOnlyInArgs(result)
    /\ Len(SourceStrings) = 2
    /\ \E i \in 1..Len(NodesOf(result, "command")) :
           NodesOf(result, "command")[i].Args = << << "Text_0" >>, << "Text_1" >> >>

\* The step in which parseBlockStatement meets EOF before the closing brace.
BlockMeetsEOF ==
    /\ Running("parseBlockStatement")
    /\ Top.pc = "loop"
    /\ p.curToken.Type = "EOF"

\* The step in which parseCommandStatement meets EOF before the closing
\* parenthesis.
CommandMeetsEOF ==
    /\ Running("parseCommandStatement")
    /\ Top.pc = "args"
    /\ p.curToken.Type = "EOF"

\* The opening brace of the block of the running parseBlockStatement: the
\* token before the one the block began at.
OpeningBrace == toks[Top.block.Token.Offset - 1]

LastError(q) == q.errors[Len(q.errors)]

\* C5: when EOF comes before the closing brace of a block or the closing
\* parenthesis of a command, the error recorded carries the line of the
\* block's opening brace, or of the command, and not the line of EOF.
C5_OpeningLine ==
    [][ /\ BlockMeetsEOF =>
            /\ Len(p'.errors) = Len(p.errors) + 1
            /\ LastError(p')[1] = "line "
            /\ LastError(p')[2] = ToString(OpeningBrace.LineNumber)
        /\ CommandMeetsEOF =>
            /\ Len(p'.errors) = Len(p.errors) + 1
            /\ LastError(p')[1] = "line "
            /\ LastError(p')[2] = ToString(Top.command.Token.LineNumber)
      ]_vars

\* parseIfVarOperator or parseIfFlagOperator has just returned to
\* parseIfConditionExpression.
OperatorReturned ==
    /\ Running("parseIfConditionExpression")
    /\ Top.pc = "operator"
    /\ ret.kind = "operator"

RelationalOperators == { "GT", "GTE", "LT", "LTE", "EQ", "NEQ" }

\* The last closing parenthesis before offset k.
LastRParenBefore(k) ==
    CHOOSE j \in 1..(k - 1) :
        /\ toks[j].Type = "RPAREN"
        /\ \A i \in (j + 1)..(k - 1) : toks[i].Type # "RPAREN"

\* The number of parts of a joined string.
Parts(joined) == (Len(joined) + 1) \div 2

\* A condition node holds what the grammar allows.
WellFormedCondition(c) ==
    IF c.Type = "VAR"
    THEN c.Operator \in RelationalOperators /\ Len(c.ComparisonValue) > 0
    ELSE /\ c.Type = "FLAG"
         /\ c.Operator = "EQ"
         /\ c.ComparisonValue \in { << "TRUE" >>, << "FALSE" >> }

\* An error of parseIfVarOperator or parseIfFlagOperator about the operator
\* or the flag value was recorded.
ConditionRejected ==
    \E i \in 1..Len(p.errors) :
        /\ Len(p.errors[i]) >= 4
        /\ p.errors[i][4] \in { "invalid condition operator '",
                                "invalid flag comparison value '" }

\* C6: a var condition is accepted only with one of the six relational
\* operators after var(...) and a non-empty comparison value; a flag
\* condition only with == and the one token TRUE or FALSE.  The node holds
\* that operator and that value.  Everything else records an error, and no
\* program holds such a condition.
C6_ConditionOperators ==
    /\ (OperatorReturned /\ ret.ok /\ ret.expression.Type = "VAR") =>
           LET e == ret.expression
               o == p.curToken.Offset
               r == LastRParenBefore(o - 2)
               n == Parts(e.Operand)
           IN  /\ toks[o - 1].Type = "LBRACE"
               /\ toks[o - 2].Type = "RPAREN"
               /\ toks[r - n - 2].Type = "VAR"
               /\ toks[r - n - 1].Type = "LPAREN"
               /\ toks[r + 1].Type \in RelationalOperators
               /\ e.Operator = toks[r + 1].Type
               /\ r + 2 <= o - 3
               /\ e.ComparisonValue =
                      Join([i \in 1..(o - r - 4) |-> toks[r + 1 + i].Literal])
    /\ (OperatorReturned /\ ret.ok /\ ret.expression.Type = "FLAG") =>
           LET e == ret.expression
               o == p.curToken.Offset
               n == Parts(e.Operand)
           IN  /\ toks[o - 1].Type = "LBRACE"
               /\ toks[o - 2].Type = "RPAREN"
               /\ toks[o - 3].Type \in { "TRUE", "FALSE" }
               /\ e.ComparisonValue = << toks[o - 3].Type >>
               /\ toks[o - 4].Type = "EQ"
               /\ e.Operator = "EQ"
               /\ toks[o - 5].Type = "RPAREN"
               /\ toks[o - 5 - n - 2].Type = "FLAG"
               /\ toks[o - 5 - n - 1].Type = "LPAREN"
    /\ (OperatorReturned /\ ~ret.ok) => Len(p.errors) > 0
    /\ (Done /\ ConditionRejected) => result.kind = "nil"
    /\ (Done /\ result.kind = "program") =>
           \A i \in 1..Len(NodesOf(result, "condition")) :
               WellFormedCondition(NodesOf(result, "condition")[i])

\* A var condition accepted with <= and a comparison value of two tokens.
C6_Witness ==
    /\ OperatorReturned
    /\ ret.ok
    /\ ret.expression.Type = "VAR"
    /\ ret.expression.Operator = "LTE"
    /\ Parts(ret.expression.ComparisonValue) = 2

\* The conditions of the spec's example, joined by && and by ||.
BinaryInputs ==
    { Stream(BinaryProgram), Stream(Replace(BinaryProgram, 12, "OR")) }

\* C7: an if condition that joins a flag(...) and a var(...)
\* operator-expression by && or || is accepted without error and yields a
\* Binary node over the two operator-expressions, in source order.
C7_BooleanCombination ==
    (Done /\ toks \in BinaryInputs) =>
        /\ Len(p.errors) = 0
        /\ result.kind = "program"
        /\ LET c == NodesOf(result, "if")[1].Consequence IN
           /\ c.Expression.kind = "binary"
           /\ c.Expression.Operator = toks[12].Type
           /\ c.Expression.Left.Type = "FLAG"
           /\ c.Expression.Right.Type = "VAR"

\* The step in which parseTopLevelStatement looks at the first token of a
\* top-level statement.
TopLevelEntry == Running("parseTopLevelStatement") /\ Top.pc = "entry"

TopLevelTypes == { "SCRIPT", "RAW", "RAWGLOBAL" }

TopLevelError(tok) ==
    LineError(tok.LineNumber,
              << "could not parse top-level statement for '", tok.Literal, "'" >>)

\* The stream from offset i on is top-level constructs, each what the
\* matching node of nodes says, up to EOF: a raw statement is three tokens,
\* a script runs to the closing brace of its body.
RECURSIVE Covers(_, _)
Covers(nodes, i) ==
    IF Len(nodes) = 0 THEN toks[i].Type = "EOF"
    ELSE LET n == Head(nodes) IN
         /\ n.Token = toks[i]
         /\ n.Token.Type \in TopLevelTypes
         /\ n.kind = (IF n.Token.Type = "SCRIPT" THEN "script" ELSE "raw")
         /\ IF n.kind = "raw"
            THEN Covers(Tail(nodes), i + 3)
            ELSE \E j \in (i + 3)..(Len(toks) - 1) :
                     toks[j].Type = "RBRACE" /\ Covers(Tail(nodes), j + 1)

\* C8: parseTopLevelStatement takes a statement that starts with script, raw
\* or rawglobal and records for any other first token an error with that
\* token's line, after which ParseProgram returns no program; on success
\* the top-level nodes are the top-level constructs of the source, one node
\* each, in source order.
C8_TopLevel ==
    /\ [][ TopLevelEntry =>
             IF p.curToken.Type \in TopLevelTypes
             THEN p'.errors = p.errors /\ Len(stack') = Len(stack) + 1
             ELSE /\ p'.errors = Append(p.errors, TopLevelError(p.curToken))
                  /\ ret' = Nil
         ]_vars
    /\ [](Done =>
            /\ (\E i \in 1..Len(p.errors) :
                    \E j \in 1..Len(toks) : p.errors[i] = TopLevelError(toks[j]))
                => result.kind = "nil"
            /\ result.kind = "program"
                => Covers(result.TopLevelStatements, 1))

\* A parse that ended on a top-level error at a statement that is not the
\* first one.
C8_Witness ==
    /\ Done
    /\ result.kind = "nil"
    /\ p.curToken.Offset > 1
    /\ p.curToken.Type = "IDENT"
    /\ p.errors = << TopLevelError(p.curToken) >>

\* An error message starts with the line of a token of the source.
LineNumbered(msg) ==
    /\ Len(msg) >= 2
    /\ msg[1] = "line "
    /\ \E i \in 1..Len(toks) : msg[2] = ToString(toks[i].LineNumber)

\* C9: every message in the parser's error list carries a line number.
C9_LineNumbered ==
    \A i \in 1..Len(p.errors) : LineNumbered(p.errors[i])

\* The spec's while loop with a break in it, and with a continue in it.
LoopInputs ==
    { Stream(WhileProgram), Stream(Replace(WhileProgram, 27, "CONTINUE")) }

\* C10: a well-formed while loop holding a break or a continue inside a
\* script body is parsed without an error into a While node.
C10_LoopStatements ==
    (Done /\ toks \in LoopInputs) =>
        /\ Len(p.errors) = 0
        /\ result.kind = "program"
        /\ result.TopLevelStatements[2].Body.Statements[1].kind = "while"

\* An error has been recorded.
Failed == Len(p.errors) > 0

\* The step neither reads a token nor records an error.
ParserUntouched ==
    /\ p'.errors = p.errors
    /\ p'.curToken = p.curToken
    /\ p'.peekToken = p.peekToken
    /\ p'.l = p.l

\* The step is a return: no parse function is called and the running one
\* does not go on in its body.
Unwinds == Len(stack') < Len(stack)

\* C11: the first grammar violation records one error, and from then until
\* ParseProgram returns every step is a return that reads no token and
\* records no error; a failed parse leaves exactly one diagnostic.
C11_AbortOnFirstError ==
    /\ [][ /\ ~Failed => Len(p'.errors) <= 1
           /\ Failed => ParserUntouched /\ Unwinds
         ]_vars
    /\ [](Done /\ result.kind = "nil" => Len(p.errors) = 1)

\* The parts of C11, each on its own.
C11_OneErrorPerViolation == [][~Failed => Len(p'.errors) <= 1]_vars
C11_NoTokenAfterError == [][Failed => p'.l = p.l /\ p'.curToken = p.curToken]_vars
C11_NoStatementAfterError == [][Failed => Unwinds]_vars
C11_NoErrorAfterError == [][Failed => p'.errors = p.errors]_vars

====
